---- MODULE Spec2Model ----
(***************************************************************************)
(* IBM Power E-Cart (src/app/app.py): a Flask application whose state      *)
(* lives in three Db2 tables (products, cart_items, orders).               *)
(*                                                                         *)
(* Two specifications are given.                                           *)
(*                                                                         *)
(*   Spec      the application processes: each runs init_db at start-up    *)
(*             and then serves requests (add product, add to cart, remove  *)
(*             from cart, checkout, GET /cart).  Processes interleave at   *)
(*             the                                                         *)
(*             granularity of the units of work they open on the store.    *)
(*                                                                         *)
(*   SpecConn  the connection manager: the retry loop of                   *)
(*             _connect_with_retry and the commit / rollback / close       *)
(*             discipline of get_db, for each kind of caller.              *)
(*                                                                         *)
(* The store.  ibm_db_dbi opens connections with autocommit off, so the    *)
(* statements of one `with get_db()` block form one transaction.  A        *)
(* statement is atomic; a transaction reads committed rows (Db2's default  *)
(* cursor stability) and its own writes become visible to others when it   *)
(* commits.  Money is counted in cents (DECIMAL(10,2)).  Every call on the *)
(* store (connect, execute, commit, rollback, close) may raise, at any     *)
(* time.  An identity column hands out increasing values; a row takes its  *)
(* value when its transaction commits (the values a rolled-back INSERT     *)
(* uses up are not modelled: ids are unique and increasing either way).    *)
(***************************************************************************)
EXTENDS Integers, Sequences, FiniteSets, TLC

\* ------------------------------------------------------------------ bounds

\* The application processes (gunicorn workers / pods) sharing one store.
Workers == {"w1", "w2"}

\* Requests served and process restarts in one behaviour, over all processes.
MaxRequests == 3

\* The largest `retries` and the delays a direct caller of
\* _connect_with_retry passes (get_db passes none: the defaults apply).
MaxRetriesArg == 3
DelayArgs == {0, 2}

\* ------------------------------------------------------- program constants

\* _connect_with_retry(retries=5, delay=5)
DefaultRetries == 5
DefaultDelay == 5

TableNames == {"products", "cart_items", "orders"}

\* The order in which init_db creates the tables.
TableOrder == <<"products", "cart_items", "orders">>

\* seed_products of init_db: (price in cents, stock).
seed_products ==
    << [price |-> 4999999, stock |-> 10],
       [price |-> 8999999, stock |-> 5],
       [price |-> 129999,  stock |-> 100],
       [price |-> 499999,  stock |-> 50],
       [price |-> 129999,  stock |-> 30],
       [price |-> 39999,   stock |-> 75],
       [price |-> 249999,  stock |-> 20],
       [price |-> 89999,   stock |-> 40] >>

\* ------------------------------------------------------------------- state

VARIABLES
    tables,         \* the tables that exist (committed) in the store
    products,       \* committed rows of products:   [id, price, stock]
    cart_items,     \* committed rows of cart_items: [id, product_id, quantity]
    orders,         \* committed rows of orders:     [id, total_amount, status]
    nextProductId,  \* next value of products.id   (GENERATED ALWAYS AS IDENTITY)
    nextCartId,     \* next value of cart_items.id
    nextOrderId,    \* next value of orders.id
    pc,             \* pc[w]: where process w stands
    loc,            \* loc[w]: the locals of the handler process w is running
    last,           \* the response (or start-up outcome) produced last
    nreq,           \* requests and restarts started so far
    cart_response,  \* the status and the JSON body of the last GET /cart
    cpc,            \* SpecConn: position in _connect_with_retry / get_db
    call,           \* SpecConn: the caller and the arguments of the retry loop
    attempt,        \* SpecConn: the loop variable `attempt`
    log,            \* SpecConn: the calls made on the driver, in order
    last_exc,       \* SpecConn: the local `last_exc`
    result          \* SpecConn: what the caller got back

shopVars == << tables, products, cart_items, orders, nextProductId, nextCartId,
               nextOrderId, pc, loc, last, nreq, cart_response >>
connVars == << cpc, call, attempt, log, last_exc, result >>
vars == << tables, products, cart_items, orders, nextProductId, nextCartId,
           nextOrderId, pc, loc, last, nreq, cart_response,
           cpc, call, attempt, log, last_exc, result >>

\* ----------------------------------------------------------------- helpers

RECURSIVE SumOver(_, _)
\* Sum of f[x] over the finite set S.
SumOver(S, f) ==
    IF S = {} THEN 0
    ELSE LET x == CHOOSE y \in S : TRUE
         IN  f[x] + SumOver(S \ {x}, f)

\* int(s) of Python on the form strings the model submits.  Form values
\* are stripped before they are parsed; int raises ValueError on every
\* string that is not an integer literal ("" and "abc" here).
IntLiterals == {"-1", "0", "1", "2", "3", "77"}
ParseInt(s) ==
    CASE s = "-1" -> -1
      [] s = "0"  -> 0
      [] s = "1"  -> 1
      [] s = "2"  -> 2
      [] s = "3"  -> 3
      [] s = "77" -> 77

\* float(s) of Python, in cents, on the price strings the model submits;
\* float raises ValueError on every other string ("abc" here).
FloatLiterals == {"-5.00", "0", "10.00"}
ParseFloat(s) ==
    CASE s = "-5.00" -> -500
      [] s = "0"     -> 0
      [] s = "10.00" -> 1000

Max(a, b) == IF a >= b THEN a ELSE b

\* The outcomes of the calls one unit of work makes on the store: TRUE when
\* the call returns, FALSE when it raises.  A call that is not reached is
\* given TRUE, so that each way of failing is drawn once.
Outcomes ==
    { o \in [conn : BOOLEAN, body : BOOLEAN, commit : BOOLEAN,
             rollback : BOOLEAN, close : BOOLEAN] :
        /\ (~o.conn => o.body /\ o.commit /\ o.rollback /\ o.close)
        /\ (~o.body => o.commit)
        /\ (~o.rollback => ~o.body \/ ~o.commit) }

\* Every call returns.
NoFault == [conn |-> TRUE, body |-> TRUE, commit |-> TRUE,
            rollback |-> TRUE, close |-> TRUE]

\* The outcomes the store's state allows: when the statements are not valid
\* against it (no such table, a value the column does not accept) the body
\* raises.
Allowed(valid) == { o \in Outcomes : ~valid /\ o.conn => ~o.body }

\* ------------------------------------------------------- connection manager

\* get_db: the calls the context manager makes on the connection around its
\* body, the exception that leaves it ("none" when it returns normally), and
\* whether the body's writes were committed.
\*     conn = _connect_with_retry()      -- raises: nothing was opened
\*     try:    yield conn; conn.commit()
\*     except Exception: conn.rollback(); raise
\*     finally: conn.close()
get_db_no_finally(o) ==
    IF ~o.conn THEN [calls |-> << >>, raised |-> "connect", committed |-> FALSE]
    ELSE IF o.body /\ o.commit
    THEN [calls |-> <<"commit", "close">>,
          raised |-> IF o.close THEN "none" ELSE "close", committed |-> TRUE]
    ELSE [calls |-> (IF o.body THEN <<"commit">> ELSE << >>) \o <<"rollback">>,
          raised |-> IF ~o.rollback THEN "rollback"
                     ELSE IF ~o.body THEN "body" ELSE "commit",
          committed |-> FALSE]

get_db_commit_on_error(o) ==
    IF ~o.conn THEN [calls |-> << >>, raised |-> "connect", committed |-> FALSE]
    ELSE [calls |-> <<"commit", "close">>,
          raised |-> IF ~o.close THEN "close"
                     ELSE IF ~o.body THEN "body"
                     ELSE IF ~o.commit THEN "commit" ELSE "none",
          committed |-> o.commit]

get_db_autocommit(o) ==
    IF ~o.conn THEN [calls |-> << >>, raised |-> "connect", committed |-> FALSE]
    ELSE LET tried  == IF o.body THEN <<"commit">> ELSE << >>
             failed == ~o.body \/ ~o.commit
             calls  == tried \o (IF failed THEN <<"rollback">> ELSE << >>)
                             \o <<"close">>
             raised == IF ~o.close THEN "close"
                       ELSE IF ~failed THEN "none"
                       ELSE IF ~o.rollback THEN "rollback"
                       ELSE IF ~o.body THEN "body" ELSE "commit"
         IN  [calls |-> calls, raised |-> raised, committed |-> o.body]

get_db(o) ==
    IF ~o.conn THEN [calls |-> << >>, raised |-> "connect", committed |-> FALSE]
    ELSE LET tried  == IF o.body THEN <<"commit">> ELSE << >>
             failed == ~o.body \/ ~o.commit
             calls  == tried \o (IF failed THEN <<"rollback">> ELSE << >>)
                             \o <<"close">>
             raised == IF ~o.close THEN "close"
                       ELSE IF ~failed THEN "none"
                       ELSE IF ~o.rollback THEN "rollback"
                       ELSE IF ~o.body THEN "body" ELSE "commit"
         IN  [calls |-> calls, raised |-> raised, committed |-> ~failed]

\* The arguments get_db passes to _connect_with_retry: none, so the
\* defaults retries=5, delay=5.
get_db_connect_once == [retries |-> 1, delay |-> 0]

get_db_connect_args == [retries |-> DefaultRetries, delay |-> DefaultDelay]

\* The functions that open their connection with `with get_db()`: init_db
\* at start-up, the others while a request is handled.
StartupCallers == {"init_db"}
RequestCallers == {"get_products", "get_cart", "get_cart_total",
                   "ui_add_product", "ui_add_to_cart", "ui_remove_from_cart",
                   "ui_checkout"}
GetDbCallers == StartupCallers \cup RequestCallers

Event(c, ok, arg) == [call |-> c, ok |-> ok, arg |-> arg]

ConnIdle ==
    /\ cpc = "idle"
    /\ call = [caller |-> "", retries |-> 0, delay |-> 0]
    /\ attempt = 0
    /\ log = << >>
    /\ last_exc = 0
    /\ result = ""

\* _connect_with_retry is entered: last_exc = Exception("Could not connect
\* to Db2") (written 0; the exception of the n-th attempt is written n).
EnterRetry(caller, retries, delay) ==
    /\ cpc = "idle"
    /\ cpc' = "loop"
    /\ call' = [caller |-> caller, retries |-> retries, delay |-> delay]
    /\ attempt' = 0
    /\ log' = << >>
    /\ last_exc' = 0
    /\ result' = ""

\* A caller of _connect_with_retry(retries, delay) with arguments of its own.
call_connect_with_retry(retries, delay) ==
    EnterRetry("direct", retries, delay)

\* `with get_db()` in one of its callers: conn = _connect_with_retry().
call_get_db(caller) ==
    EnterRetry(caller, get_db_connect_args.retries, get_db_connect_args.delay)

\* One iteration of `for attempt in range(retries)`: ibm_db_dbi.connect
\* returns (the loop is left with the connection) or raises (last_exc = exc,
\* and time.sleep(delay) when attempt < retries - 1).
_connect_sleep_always(ok) ==
    /\ cpc = "loop"
    /\ attempt < call.retries
    /\ IF ok
       THEN /\ log' = Append(log, Event("connect", TRUE, attempt + 1))
            /\ cpc' = "connected"
            /\ UNCHANGED << attempt, last_exc >>
       ELSE /\ log' = log \o << Event("connect", FALSE, attempt + 1),
                                Event("sleep", TRUE, call.delay) >>
            /\ last_exc' = attempt + 1
            /\ attempt' = attempt + 1
            /\ cpc' = "loop"
    /\ UNCHANGED << call, result >>

_connect_with_retry_iteration(ok) ==
    /\ cpc = "loop"
    /\ attempt < call.retries
    /\ IF ok
       THEN /\ log' = Append(log, Event("connect", TRUE, attempt + 1))
            /\ cpc' = "connected"
            /\ UNCHANGED << attempt, last_exc >>
       ELSE /\ log' = log \o << Event("connect", FALSE, attempt + 1) >>
                          \o (IF attempt < call.retries - 1
                              THEN << Event("sleep", TRUE, call.delay) >>
                              ELSE << >>)
            /\ last_exc' = attempt + 1
            /\ attempt' = attempt + 1
            /\ cpc' = "loop"
    /\ UNCHANGED << call, result >>

\* The loop is exhausted: raise last_exc.
_connect_with_retry_raise ==
    /\ cpc = "loop"
    /\ attempt >= call.retries
    /\ cpc' = "raised"
    /\ UNCHANGED << call, attempt, log, last_exc, result >>

\* A direct caller gets the connection, or the exception.
connect_with_retry_returns ==
    /\ cpc \in {"connected", "raised"}
    /\ call.caller = "direct"
    /\ result' = IF cpc = "connected" THEN "connection" ELSE "raised last_exc"
    /\ cpc' = "done"
    /\ UNCHANGED << call, attempt, log, last_exc >>

\* The rest of get_db once _connect_with_retry is over: the body of the
\* `with` block runs (it returns or raises), then commit / rollback / close
\* as get_db makes them; result is the exception that reaches the caller.
get_db_run(o) ==
    /\ cpc \in {"connected", "raised"}
    /\ call.caller \in GetDbCallers
    /\ o.conn = (cpc = "connected")
    /\ LET uow == get_db(o)
       IN  /\ log' = log
                   \o (IF o.conn THEN << Event("body", o.body, 0) >> ELSE << >>)
                   \o [i \in 1..Len(uow.calls) |->
                         Event(uow.calls[i], o[uow.calls[i]], 0)]
           /\ result' = uow.raised
    /\ cpc' = "done"
    /\ UNCHANGED << call, attempt, last_exc >>

\* GET /ready: one ibm_db_dbi.connect, cursor(), execute, cur.close(),
\* conn.close(); 200, or 503 when any of them raises (failAt; 0: none).
ReadyCalls == <<"connect", "cursor", "execute", "cursor.close", "close">>
ready_with_retry(failAt) ==
    /\ cpc = "idle"
    /\ call' = [caller |-> "ready", retries |-> 2, delay |-> DefaultDelay]
    /\ log' = IF failAt = 1
              THEN << Event("connect", FALSE, 1), Event("sleep", TRUE, DefaultDelay),
                      Event("connect", FALSE, 2) >>
              ELSE [i \in 1..(IF failAt = 0 THEN Len(ReadyCalls) ELSE failAt) |->
                      Event(ReadyCalls[i], i # failAt, IF i = 1 THEN 1 ELSE 0)]
    /\ result' = IF failAt = 0 THEN "200" ELSE "503"
    /\ cpc' = "done"
    /\ UNCHANGED << attempt, last_exc >>

ready(failAt) ==
    /\ cpc = "idle"
    /\ call' = [caller |-> "ready", retries |-> 1, delay |-> 0]
    /\ log' = [i \in 1..(IF failAt = 0 THEN Len(ReadyCalls) ELSE failAt) |->
                 Event(ReadyCalls[i], i # failAt, IF i = 1 THEN 1 ELSE 0)]
    /\ result' = IF failAt = 0 THEN "200" ELSE "503"
    /\ cpc' = "done"
    /\ UNCHANGED << attempt, last_exc >>

\* The caller is done with the connection; the next call starts afresh.
ConnReturn ==
    /\ cpc = "done"
    /\ cpc' = "idle"
    /\ call' = [caller |-> "", retries |-> 0, delay |-> 0]
    /\ attempt' = 0
    /\ log' = << >>
    /\ last_exc' = 0
    /\ result' = ""

\* ------------------------------------------------------------- the store

NoRow == [id |-> 0, quantity |-> 0]

\* The locals of a process that is running no handler.
NoLocals == [product_id |-> 0, qty |-> 0, row |-> NoRow, total |-> 0,
             items |-> {}, dirty |-> FALSE]

Busy(v) == pc[v] \notin {"startup", "idle"}

\* Process w ends its handler; when it committed a change, every other
\* process that is in the middle of a handler has been overlapped.
Finish(w, changed) ==
    loc' = [v \in Workers |->
              IF v = w THEN NoLocals
              ELSE IF changed /\ Busy(v) THEN [loc[v] EXCEPT !.dirty = TRUE]
              ELSE loc[v]]

\* The answer of a handler: the flash type and message of its redirect, and
\* the number of rows its statements changed in the store.
Respond(op, type, msg, rows) ==
    last' = [op |-> op, type |-> type, msg |-> msg, rows |-> rows]

\* SELECT COALESCE(SUM(DECIMAL(p.price * c.quantity, 10, 2)), 0)
\* FROM cart_items c JOIN products p ON c.product_id = p.id
CartTotal(cart, prods) ==
    LET sub == [c \in cart |->
                  SumOver({q \in prods : q.id = c.product_id},
                          [q \in prods |-> q.price * c.quantity])]
    IN  SumOver(cart, sub)

\* ----------------------------------------------------------------- init_db

\* What the store answers to CREATE TABLE t.
CreateError(t, injected) ==
    IF injected THEN "SQL0911N"
    ELSE IF t \in tables THEN "SQL0601N" ELSE "none"

\* `def _create_table_if_not_exists(cur, create_sql, table_name)`: three
\* parameters, none with a default; init_db calls it three times as
\* `_create_table_if_not_exists(cur, """CREATE TABLE ...""")`.
create_table_parameters == <<"cur", "create_sql", "table_name">>
create_table_arguments  == <<"cur", "create_sql">>

\* Python binds the positional arguments of a call to the parameters in
\* order; a parameter without default that gets no argument makes the call
\* raise TypeError before the body of the function is entered.
CallBinds(arguments, parameters) == Len(arguments) = Len(parameters)

\* The body of _create_table_if_not_exists: "created", "swallowed" (the
\* table exists already) or "raise", from the exception cur.execute raised.
_create_table_if_not_exists(exc) ==
    IF exc = "none" THEN "created"
    ELSE IF exc = "SQL0601N" \/ exc = "-601" THEN "swallowed"
    ELSE "raise"

\* One call of init_db to _create_table_if_not_exists, for table t.
create_table_call(t, injected) ==
    IF CallBinds(create_table_arguments, create_table_parameters)
    THEN _create_table_if_not_exists(CreateError(t, injected))
    ELSE "raise"

\* The three calls of init_db, in order; failAt is the statement an
\* injected failure hits (0: none).  The tables created, and whether the
\* sequence ran to its end.
CreateTables(failAt) ==
    LET res == [i \in 1..3 |-> create_table_call(TableOrder[i], failAt = i)]
        stop == {i \in 1..3 : res[i] = "raise"}
    IN  [ok      |-> stop = {},
         created |-> {TableOrder[i] : i \in
                        {j \in 1..3 : res[j] = "created"
                                      /\ \A k \in stop : j < k}}]

\* The rows the eight INSERTs of init_db add.
SeedRows(first) ==
    { [id |-> first + i - 1, price |-> seed_products[i].price,
       stock |-> seed_products[i].stock] : i \in 1..Len(seed_products) }

\* `if row and row[0] == 0`: the seed rows are inserted when the count is 0.
products_is_empty(count) == count = 0

\* Start-up: `try: init_db() except Exception: print WARNING`.  init_db is
\* one unit of work: connect, the three calls that are to create the tables,
\* SELECT COUNT(*) FROM products and, when the count is 0, the eight seed
\* INSERTs; commit, close.  The first call to _create_table_if_not_exists
\* raises TypeError (it does not bind), so the body raises before any
\* statement reaches the store: rollback, close, and the WARNING of start-up.
init_db(w, o, failAt) ==
    /\ pc[w] = "startup"
    /\ o \in Outcomes
    /\ LET binds  == CallBinds(create_table_arguments, create_table_parameters)
           ct     == CreateTables(failAt)
           bodyOk == ct.ok /\ failAt # 4
           count  == IF "products" \in ct.created THEN 0
                     ELSE Cardinality(products)
           seeds  == bodyOk /\ products_is_empty(count)
           uow    == get_db(o)
       IN  /\ failAt # 0 => (binds /\ o.conn)
           /\ o.conn => (o.body = bodyOk)
           /\ tables' = IF uow.committed THEN tables \cup ct.created ELSE tables
           /\ products' = IF uow.committed /\ seeds
                          THEN products \cup SeedRows(nextProductId)
                          ELSE products
           /\ nextProductId' = IF uow.committed /\ seeds
                                THEN nextProductId + Len(seed_products)
                                ELSE nextProductId
           /\ Finish(w, uow.committed /\ (seeds \/ ct.created # {}))
           /\ Respond("init_db",
                      IF uow.raised = "none" THEN "ok" ELSE "warning",
                      IF uow.raised = "body" /\ ~binds THEN "TypeError"
                      ELSE uow.raised,
                      IF uow.committed /\ seeds THEN Len(seed_products) ELSE 0)
    /\ pc' = [pc EXCEPT ![w] = "idle"]
    /\ UNCHANGED << cart_items, orders, nextCartId, nextOrderId, nreq >>

\* The process is restarted: the module is loaded again, init_db runs again.
Restart(w) ==
    /\ pc[w] = "idle"
    /\ nreq < MaxRequests
    /\ nreq' = nreq + 1
    /\ pc' = [pc EXCEPT ![w] = "startup"]
    /\ UNCHANGED << tables, products, cart_items, orders, nextProductId,
                    nextCartId, nextOrderId, loc, last >>

\* ---------------------------------------------------------------- handlers

StartRequest(w) ==
    /\ pc[w] = "idle"
    /\ nreq < MaxRequests
    /\ nreq' = nreq + 1

\* request.form.get("name", "").strip() on the names the model submits.
Strip(s) == IF s = " " THEN "" ELSE s

\* `if not name`: the stripped name is empty.
name_never_missing(name) == FALSE

name_is_missing(name) == Strip(name) = ""

\* POST /ui/products.
ui_add_product(w, name, price_str, stock_str, o) ==
    /\ StartRequest(w)
    /\ pc' = pc
    /\ IF name_is_missing(name)
       THEN /\ o = NoFault
            /\ Respond("add_product", "error", "Product name is required.", 0)
            /\ Finish(w, FALSE)
            /\ UNCHANGED << products, nextProductId >>
       ELSE IF price_str \notin FloatLiterals
               \/ (stock_str # "" /\ stock_str \notin IntLiterals)
       THEN /\ o = NoFault
            /\ Respond("add_product", "error", "Invalid price or stock value.", 0)
            /\ Finish(w, FALSE)
            /\ UNCHANGED << products, nextProductId >>
       ELSE LET price == ParseFloat(price_str)
                stock == IF stock_str # "" THEN ParseInt(stock_str) ELSE 0
                valid == "products" \in tables
                uow   == get_db(o)
            IN        /\ o \in Allowed(valid)
                      /\ products' =
                           IF uow.committed
                           THEN products \cup {[id |-> nextProductId,
                                                price |-> price, stock |-> stock]}
                           ELSE products
                      /\ nextProductId' = IF uow.committed
                                          THEN nextProductId + 1 ELSE nextProductId
                      /\ Finish(w, uow.committed)
                      /\ IF uow.raised = "none"
                         THEN Respond("add_product", "success", "Product added", 1)
                         ELSE Respond("add_product", "error", "Error",
                                      IF uow.committed THEN 1 ELSE 0)
    /\ UNCHANGED << tables, cart_items, orders, nextCartId, nextOrderId >>

\* `try: qty = max(1, int(qty_str)) except ValueError: qty = 1`.
quantity_as_submitted(qty_str) ==
    IF qty_str \in IntLiterals THEN ParseInt(qty_str) ELSE 1

quantity_of_form(qty_str) ==
    IF qty_str \in IntLiterals THEN Max(1, ParseInt(qty_str)) ELSE 1

\* POST /ui/cart/add, first part: parse the form, connect, and
\* SELECT id, quantity FROM cart_items WHERE product_id = ?; fetchone().
ui_add_to_cart_select(w, product_id, qty_str, o) ==
    /\ StartRequest(w)
    /\ LET qty   == quantity_of_form(qty_str)
           valid == "cart_items" \in tables /\ product_id \in IntLiterals
       IN  \/ /\ o \in Allowed(valid)
              /\ ~o.conn \/ ~o.body
              /\ pc' = pc
              /\ Finish(w, FALSE)
              /\ Respond("add_to_cart", "error", "Error", 0)
           \/ /\ valid
              /\ o = NoFault
              /\ LET found == {r \in cart_items : r.product_id = ParseInt(product_id)}
                     rows  == IF found = {} THEN {NoRow}
                              ELSE {[id |-> r.id, quantity |-> r.quantity] : r \in found}
                 IN  \E row \in rows :
                       loc' = [loc EXCEPT ![w] =
                                 [NoLocals EXCEPT !.product_id = ParseInt(product_id),
                                                  !.qty = qty, !.row = row]]
              /\ pc' = [pc EXCEPT ![w] = "add_write"]
              /\ UNCHANGED last
    /\ UNCHANGED << tables, products, cart_items, orders, nextProductId,
                    nextCartId, nextOrderId >>

\* The rows of cart_items after the UPDATE or the INSERT of ui_add_to_cart:
\* `if row:` UPDATE cart_items SET quantity = row[1] + qty WHERE id = row[0],
\* else INSERT (product_id, qty).
AddToCartAlwaysInsert(l) ==
    cart_items \cup {[id |-> nextCartId, product_id |-> l.product_id,
                      quantity |-> l.qty]}

AddToCartRows(l) ==
    IF l.row # NoRow
    THEN { IF r.id = l.row.id
           THEN [r EXCEPT !.quantity = l.row.quantity + l.qty] ELSE r
           : r \in cart_items }
    ELSE cart_items \cup {[id |-> nextCartId, product_id |-> l.product_id,
                           quantity |-> l.qty]}

\* POST /ui/cart/add, second part: UPDATE the row found (to the quantity
\* read plus qty) or INSERT a new row; commit, close, redirect.
ui_add_to_cart_write(w, o) ==
    /\ pc[w] = "add_write"
    /\ LET valid == "cart_items" \in tables
           uow   == get_db(o)
       IN        /\ o \in Allowed(valid)
                 /\ o.conn
                 /\ cart_items' = IF uow.committed
                                  THEN AddToCartRows(loc[w]) ELSE cart_items
                 /\ nextCartId' =
                      IF uow.committed /\ \E r \in AddToCartRows(loc[w]) : r.id = nextCartId
                      THEN nextCartId + 1 ELSE nextCartId
                 /\ Finish(w, uow.committed)
                 /\ Respond("add_to_cart",
                            IF uow.raised = "none" THEN "success" ELSE "error",
                            IF uow.raised = "none" THEN "Item added to cart"
                            ELSE "Error",
                            IF ~uow.committed THEN 0
                            ELSE IF loc[w].row = NoRow THEN 1
                            ELSE Cardinality({r \in cart_items :
                                                r.id = loc[w].row.id}))
    /\ pc' = [pc EXCEPT ![w] = "idle"]
    /\ UNCHANGED << tables, products, orders, nextProductId, nextOrderId, nreq >>

\* DELETE FROM cart_items WHERE id = ?: the rows that stay.
RemoveAllRows(cart_id) == {}

RemoveRows(cart_id) == {r \in cart_items : r.id # cart_id}

\* POST /ui/cart/<int:cart_id>/remove.
ui_remove_from_cart(w, cart_id, o) ==
    /\ StartRequest(w)
    /\ pc' = pc
    /\ LET valid == "cart_items" \in tables
           uow   == get_db(o)
       IN        /\ o \in Allowed(valid)
                 /\ cart_items' = IF uow.committed
                                  THEN RemoveRows(cart_id)
                                  ELSE cart_items
                 /\ Finish(w, uow.committed)
                 /\ Respond("remove",
                            IF uow.raised = "none" THEN "success" ELSE "error",
                            IF uow.raised = "none" THEN "Item removed from cart"
                            ELSE "Error",
                            IF ~uow.committed THEN 0
                            ELSE Cardinality({r \in cart_items : r.id = cart_id}))
    /\ UNCHANGED << tables, products, orders, nextProductId, nextCartId,
                    nextOrderId >>

\* get_cart_total: the sum over the cart in a unit of work of its own;
\* 0.0 when anything raises.
get_cart_total(o) ==
    IF get_db(o).raised = "none" THEN CartTotal(cart_items, products) ELSE 0

\* The rows of get_cart's SELECT: one per cart row whose product exists
\* (JOIN products p ON c.product_id = p.id), with
\* DECIMAL(p.price * c.quantity, 10, 2) AS subtotal.
CartEntries(cart, prods) ==
    { [cart_id |-> x[1].id, price |-> x[2].price, quantity |-> x[1].quantity,
       subtotal |-> x[2].price * x[1].quantity, product_id |-> x[1].product_id] :
      x \in {y \in cart \X prods : y[2].id = y[1].product_id} }

\* get_cart: (rows, None) from a unit of work of its own; ([], str(exc))
\* when anything raises.
get_cart(o) ==
    IF get_db(o).raised = "none"
    THEN [rows |-> CartEntries(cart_items, products), err |-> FALSE]
    ELSE [rows |-> {}, err |-> TRUE]

NoCartResponse == [status |-> 0, cart |-> {}, total |-> 0, count |-> 0]

\* GET /cart, first part: cart_items, err = get_cart(); a 500 with the
\* error when err is set; else the entries are built from the rows.
get_cart_api_items(w, o) ==
    /\ StartRequest(w)
    /\ LET valid == {"cart_items", "products"} \subseteq tables
           res   == get_cart(o)
       IN  /\ o \in Allowed(valid)
           /\ IF res.err
              THEN /\ pc' = pc
                   /\ Finish(w, FALSE)
                   /\ Respond("get_cart", "500", "error", 0)
                   /\ cart_response' = [NoCartResponse EXCEPT !.status = 500]
              ELSE /\ pc' = [pc EXCEPT ![w] = "cart_total"]
                   /\ loc' = [loc EXCEPT ![w] =
                                [NoLocals EXCEPT !.items = res.rows]]
                   /\ UNCHANGED << last, cart_response >>
    /\ UNCHANGED << tables, products, cart_items, orders, nextProductId,
                    nextCartId, nextOrderId >>

\* GET /cart, second part: the 200 response
\* {"cart": items, "total": get_cart_total(), "count": len(items)}.
get_cart_api_total(w, o) ==
    /\ pc[w] = "cart_total"
    /\ LET valid == {"cart_items", "products"} \subseteq tables
       IN  /\ o \in Allowed(valid)
           /\ cart_response' = [status |-> 200,
                                cart   |-> loc[w].items,
                                total  |-> get_cart_total(o),
                                count  |-> Cardinality(loc[w].items)]
           /\ Respond("get_cart", "200", "", Cardinality(loc[w].items))
    /\ Finish(w, FALSE)
    /\ pc' = [pc EXCEPT ![w] = "idle"]
    /\ UNCHANGED << tables, products, cart_items, orders, nextProductId,
                    nextCartId, nextOrderId, nreq >>

\* `if total == 0`: the cart is taken to be empty.
NeverEmpty(total) == FALSE

CartIsEmpty(total) == total = 0

\* POST /ui/checkout, first part: total = get_cart_total(); an empty-cart
\* redirect when it is 0.
ui_checkout_total(w, o) ==
    /\ StartRequest(w)
    /\ LET valid == {"cart_items", "products"} \subseteq tables
           total == get_cart_total(o)
       IN        /\ o \in Allowed(valid)
                 /\ IF CartIsEmpty(total)
                    THEN /\ pc' = pc
                         /\ Finish(w, FALSE)
                         /\ Respond("checkout", "error", "Cart is empty.", 0)
                    ELSE /\ pc' = [pc EXCEPT ![w] = "checkout_write"]
                         /\ loc' = [loc EXCEPT ![w] =
                                      [NoLocals EXCEPT !.total = total]]
                         /\ UNCHANGED last
    /\ UNCHANGED << tables, products, cart_items, orders, nextProductId,
                    nextCartId, nextOrderId >>

\* INSERT INTO orders (total_amount, status) VALUES (total, "completed");
\* DELETE FROM cart_items: the rows of the two tables afterwards.
CheckoutKeepsCart(total) ==
    [orders     |-> orders \cup {[id |-> nextOrderId, total_amount |-> total,
                                  status |-> "completed"]},
     cart_items |-> cart_items]

CheckoutReplacesOrders(total) ==
    [orders     |-> {[id |-> nextOrderId, total_amount |-> total,
                      status |-> "completed"]},
     cart_items |-> {}]

CheckoutWrites(total) ==
    [orders     |-> orders \cup {[id |-> nextOrderId, total_amount |-> total,
                                  status |-> "completed"]},
     cart_items |-> {}]

\* POST /ui/checkout, second part: a unit of work of its own (get_db
\* connects again): INSERT INTO orders (total, "completed"); DELETE FROM
\* cart_items; commit, close, redirect.
ui_checkout_write_takes_stock(w, o) ==
    /\ pc[w] = "checkout_write"
    /\ LET valid == {"orders", "cart_items"} \subseteq tables
           uow   == get_db(o)
           sold  == [p \in products |->
                       SumOver({c \in cart_items : c.product_id = p.id},
                               [c \in cart_items |-> c.quantity])]
       IN        /\ o \in Allowed(valid)
                 /\ orders' = IF uow.committed
                              THEN CheckoutWrites(loc[w].total).orders
                              ELSE orders
                 /\ cart_items' = IF uow.committed
                                  THEN CheckoutWrites(loc[w].total).cart_items
                                  ELSE cart_items
                 /\ products' = IF uow.committed
                                THEN {[p EXCEPT !.stock = p.stock - sold[p]] :
                                        p \in products}
                                ELSE products
                 /\ nextOrderId' = IF uow.committed
                                   THEN nextOrderId + 1 ELSE nextOrderId
                 /\ Finish(w, uow.committed)
                 /\ Respond("checkout",
                            IF uow.raised = "none" THEN "success" ELSE "error",
                            IF uow.raised = "none" THEN "Order placed"
                            ELSE "Checkout error",
                            IF uow.committed THEN 1 + Cardinality(cart_items)
                            ELSE 0)
    /\ pc' = [pc EXCEPT ![w] = "idle"]
    /\ UNCHANGED << tables, nextProductId, nextCartId, nreq >>

ui_checkout_write(w, o) ==
    /\ pc[w] = "checkout_write"
    /\ LET valid == {"orders", "cart_items"} \subseteq tables
           uow   == get_db(o)
       IN        /\ o \in Allowed(valid)
                 /\ orders' = IF uow.committed
                              THEN CheckoutWrites(loc[w].total).orders
                              ELSE orders
                 /\ cart_items' = IF uow.committed
                                  THEN CheckoutWrites(loc[w].total).cart_items
                                  ELSE cart_items
                 /\ nextOrderId' = IF uow.committed
                                   THEN nextOrderId + 1 ELSE nextOrderId
                 /\ Finish(w, uow.committed)
                 /\ Respond("checkout",
                            IF uow.raised = "none" THEN "success" ELSE "error",
                            IF uow.raised = "none" THEN "Order placed"
                            ELSE "Checkout error",
                            IF uow.committed THEN 1 + Cardinality(cart_items)
                            ELSE 0)
    /\ pc' = [pc EXCEPT ![w] = "idle"]
    /\ UNCHANGED << tables, products, nextProductId, nextCartId, nreq >>

\* ----------------------------------------------------- the specification

\* What the forms submit.
ProductForms ==
    { [name |-> "",       price |-> "10.00", stock |-> "3"],
      [name |-> " ",      price |-> "10.00", stock |-> "3"],
      [name |-> "Widget", price |-> "abc",   stock |-> "3"],
      [name |-> "Widget", price |-> "10.00", stock |-> "abc"],
      [name |-> "Widget", price |-> "10.00", stock |-> "3"],
      [name |-> "Widget", price |-> "0",     stock |-> ""],
      [name |-> "Widget", price |-> "-5.00", stock |-> "-1"] }
\* Product 1 is the first sample product (or the first product added to a
\* store without rows); 9 is the first product added after the samples.
ProductIdInputs == {"1", "9", "abc"}
QuantityInputs  == {"1", "2", "0", "-1", "abc"}

NoResponse == [op |-> "", type |-> "", msg |-> "", rows |-> 0]

\* The store outlives the processes.  When they start it has no table, the
\* products table only, the three tables without rows, or the three tables
\* and the eight sample products (a store that was set up beforehand).
InitialStores ==
    { [tables |-> {},           products |-> {}],
      [tables |-> {"products"}, products |-> {}],
      [tables |-> TableNames,   products |-> {}],
      [tables |-> TableNames,   products |-> SeedRows(1)] }

ShopInit ==
    /\ \E s \in InitialStores :
         /\ tables = s.tables
         /\ products = s.products
         /\ nextProductId = 1 + Cardinality(s.products)
    /\ cart_items = {}
    /\ orders = {}
    /\ nextCartId = 1
    /\ nextOrderId = 1
    /\ pc = [w \in Workers |-> "startup"]
    /\ loc = [w \in Workers |-> NoLocals]
    /\ last = NoResponse
    /\ nreq = 0
    /\ cart_response = NoCartResponse

Init == ShopInit /\ ConnIdle

Next ==
    \/ \E w \in Workers, o \in Outcomes, failAt \in 0..4 :
         init_db(w, o, failAt) /\ UNCHANGED << connVars, cart_response >>
    \/ \E w \in Workers : Restart(w) /\ UNCHANGED << connVars, cart_response >>
    \/ \E w \in Workers, f \in ProductForms, o \in Outcomes :
         ui_add_product(w, f.name, f.price, f.stock, o) /\ UNCHANGED << connVars, cart_response >>
    \/ \E w \in Workers, p \in ProductIdInputs, q \in QuantityInputs,
          o \in Outcomes :
         ui_add_to_cart_select(w, p, q, o) /\ UNCHANGED << connVars, cart_response >>
    \/ \E w \in Workers, o \in Outcomes :
         ui_add_to_cart_write(w, o) /\ UNCHANGED << connVars, cart_response >>
    \/ \E w \in Workers, k \in 0..nextCartId, o \in Outcomes :
         ui_remove_from_cart(w, k, o) /\ UNCHANGED << connVars, cart_response >>
    \/ \E w \in Workers, o \in Outcomes :
         ui_checkout_total(w, o) /\ UNCHANGED << connVars, cart_response >>
    \/ \E w \in Workers, o \in Outcomes :
         ui_checkout_write(w, o) /\ UNCHANGED << connVars, cart_response >>
    \/ \E w \in Workers, o \in Outcomes :
         get_cart_api_items(w, o) /\ UNCHANGED connVars
    \/ \E w \in Workers, o \in Outcomes :
         get_cart_api_total(w, o) /\ UNCHANGED connVars

Spec == Init /\ [][Next]_vars

ConnNext ==
    \/ \E r \in 0..MaxRetriesArg, d \in DelayArgs :
         call_connect_with_retry(r, d) /\ UNCHANGED shopVars
    \/ \E c \in GetDbCallers : call_get_db(c) /\ UNCHANGED shopVars
    \/ \E ok \in BOOLEAN :
         _connect_with_retry_iteration(ok) /\ UNCHANGED shopVars
    \/ _connect_with_retry_raise /\ UNCHANGED shopVars
    \/ connect_with_retry_returns /\ UNCHANGED shopVars
    \/ \E o \in Outcomes : get_db_run(o) /\ UNCHANGED shopVars
    \/ \E failAt \in 0..Len(ReadyCalls) : ready(failAt) /\ UNCHANGED shopVars
    \/ ConnReturn /\ UNCHANGED shopVars

SpecConn == Init /\ [][ConnNext]_vars

\* ------------------------------------------------------------------ claims

RowsOf(cart, p) == {r \in cart : r.product_id = p}

\* C1: a checkout that finds a cart total > 0 is not rejected, and (when the
\* store raises nothing and no other request commits between its two units
\* of work) it creates exactly one new order row, whose total_amount is the
\* cart total before the checkout, and leaves zero cart rows.
C1_CheckoutPlacesOneOrder ==
    [][\A w \in Workers :
         /\ ( ui_checkout_total(w, NoFault)
              /\ CartTotal(cart_items, products) > 0 )
            => ( /\ pc'[w] = "checkout_write"
                 /\ loc'[w].total = CartTotal(cart_items, products) )
         /\ ( ui_checkout_write(w, NoFault) /\ ~loc[w].dirty
              /\ CartTotal(cart_items, products) > 0 )
            => ( /\ last'.type = "success"
                 /\ orders \subseteq orders'
                 /\ Cardinality(orders' \ orders) = 1
                 /\ \A o \in orders' \ orders :
                      o.total_amount = CartTotal(cart_items, products)
                 /\ cart_items' = {} )
    ]_vars

\* C1 witness: a checkout of a cart of two rows has placed its order.
C1_Witness ==
    /\ last.op = "checkout" /\ last.type = "success" /\ last.rows = 3
    /\ cart_items = {}
    /\ \E o \in orders : o.total_amount > 0

\* C2: an add-to-cart of quantity q for a product (no other request
\* committing in between, the add succeeding) leaves exactly one row for the
\* product: of quantity q when the cart held none, of quantity q1 + q when
\* it held one row of quantity q1; so two adds in sequence of q1 and q2
\* yield one row of quantity q1 + q2.
C2_AddTwiceMerges ==
    [][\A w \in Workers :
         ( pc[w] = "add_write" /\ last'.type = "success" /\ ~loc[w].dirty
           /\ Cardinality(RowsOf(cart_items, loc[w].product_id)) <= 1 )
         => \A o \in Outcomes :
              ui_add_to_cart_write(w, o)
              => LET p      == loc[w].product_id
                     before == RowsOf(cart_items, p)
                     after  == RowsOf(cart_items', p)
                 IN  /\ loc[w].qty >= 1
                     /\ Cardinality(after) = 1
                     /\ \A a \in after :
                          /\ before = {} => a.quantity = loc[w].qty
                          /\ \A b \in before :
                               a.quantity = b.quantity + loc[w].qty /\ a.id = b.id
                     /\ cart_items' \ after = cart_items \ before
    ]_vars

\* C2 witness: adds of 1 and of 2 of product 1 have left one row of 3.
C2_Witness ==
    /\ last.op = "add_to_cart" /\ last.type = "success"
    /\ nreq = 2
    /\ Cardinality(RowsOf(cart_items, 1)) = 1
    /\ \E r \in cart_items : r.product_id = 1 /\ r.quantity = 3

\* C3: cart_items holds at most one row per product_id in every reachable
\* state, interleaved add-to-cart requests included.
C3_AtMostOneRowPerProduct ==
    \A r1, r2 \in cart_items : r1.product_id = r2.product_id => r1 = r2

\* C4: a checkout that finds a cart total of 0 (an empty cart) creates no
\* order row, answers with the error redirect "Cart is empty." and leaves
\* cart_items as it is.
C4_EmptyCartRejected ==
    [][\A w \in Workers :
         ( pc[w] = "idle" /\ nreq' = nreq + 1
           /\ (last'.op = "checkout" \/ pc'[w] = "checkout_write")
           /\ CartTotal(cart_items, products) = 0 )
         => \A o \in Outcomes :
              ui_checkout_total(w, o)
              => ( /\ last' = [op |-> "checkout", type |-> "error",
                               msg |-> "Cart is empty.", rows |-> 0]
                   /\ pc'[w] = "idle"
                   /\ orders' = orders
                   /\ cart_items' = cart_items
                   /\ products' = products )
    ]_vars

\* C4 witness: the checkout of an empty cart of a working store was rejected.
C4_Witness ==
    /\ last = [op |-> "checkout", type |-> "error", msg |-> "Cart is empty.",
               rows |-> 0]
    /\ tables = TableNames
    /\ products # {}
    /\ cart_items = {}
    /\ orders = {}

\* C5: remove-from-cart of cart row id k deletes the row whose id is k and
\* no other row (it deletes it whenever it answers success), and leaves the
\* products, the orders and the tables as they are; when no row has id k
\* nothing changes.
C5_RemoveDeletesExactlyRowK ==
    [][\A w \in Workers :
         ( pc[w] = "idle" /\ nreq' = nreq + 1 /\ last'.op = "remove" )
         => \A k \in 0..nextCartId :
              LET others == {r \in cart_items : r.id # k}
                  exact  == /\ cart_items' \in {cart_items, others}
                            /\ last'.type = "success" => cart_items' = others
                            /\ others = cart_items => cart_items' = cart_items
                            /\ products' = products
                            /\ orders' = orders
                            /\ tables' = tables
              IN  exact \/ \A o \in Outcomes : ~ui_remove_from_cart(w, k, o)
    ]_vars

\* C5 witness: a remove has deleted one row of a cart and another row stays.
C5_Witness ==
    /\ last.op = "remove" /\ last.type = "success" /\ last.rows = 1
    /\ Cardinality(cart_items) = 1

\* Every call init_db makes on the store returns (what the body does is the
\* code's own doing).
StoreReturns(o) == o.conn /\ o.commit /\ o.rollback /\ o.close

\* C6: init_db run twice, or any number of times, against the same store
\* does not error (the store answering every call) and does not duplicate
\* the seed rows: a run on a store without product rows ends without error
\* and leaves the 8 seed rows in products, and a run on a store with product
\* rows ends without error and leaves products as it is.
C6_InitIdempotent ==
    [][\A w \in Workers, o \in Outcomes :
         ( StoreReturns(o) /\ init_db(w, o, 0) )
         => /\ last'.type = "ok"
            /\ tables' = TableNames
            /\ IF products = {}
               THEN Cardinality(products') = Len(seed_products)
               ELSE products' = products
    ]_vars

\* The places of the log where call c was made.
Calls(c) == {i \in 1..Len(log) : log[i].call = c}

\* A connection was opened.
Acquired == \E i \in Calls("connect") : log[i].ok

\* get_db has returned to (or raised into) its caller.
GetDbDone == cpc = "done" /\ call.caller \in GetDbCallers

\* C7: get_db closes the connection it acquired before control returns to
\* its caller, in every case (the body returns, the body raises, commit
\* raises, rollback raises): close is called exactly once, as the last
\* call; and nothing is closed when no connection was acquired.
C7_ConnectionAlwaysClosed ==
    GetDbDone =>
        IF Acquired
        THEN /\ Cardinality(Calls("close")) = 1
             /\ log[Len(log)].call = "close"
             /\ Calls("body") # {}
        ELSE Calls("close") = {} /\ result = "connect"

\* C7 witness: the body raised, the rollback raised too, and the connection
\* was closed.
C7_Witness ==
    /\ GetDbDone
    /\ \E i \in Calls("body") : ~log[i].ok
    /\ \E i \in Calls("rollback") : ~log[i].ok
    /\ log[Len(log)].call = "close"

\* C8 as claimed: when the body completes normally commit is called and
\* rollback is not; when the body raises, rollback is called, commit is
\* never called, and the body's failure reaches the caller.
C8_CommitXorRollback ==
    (GetDbDone /\ Acquired) =>
        \A b \in Calls("body") :
            IF log[b].ok
            THEN Calls("commit") # {} /\ Calls("rollback") = {}
            ELSE /\ Calls("rollback") # {}
                 /\ Calls("commit") = {}
                 /\ result = "body"

\* C8 amended: when the body completes normally commit is called next, and
\* rollback is called exactly when that commit raises; when the body raises,
\* rollback is called, commit is never called, and the body's failure
\* reaches the caller unless rollback or close raises in turn: then the
\* failure of the last of them to raise reaches the caller.
C8_CommitThenRollbackOnFailure ==
    (GetDbDone /\ Acquired) =>
        \A b \in Calls("body") :
            IF log[b].ok
            THEN /\ Calls("commit") = {b + 1}
                 /\ IF log[b + 1].ok
                    THEN Calls("rollback") = {}
                    ELSE Calls("rollback") = {b + 2}
                 /\ (\A i \in b + 1 .. Len(log) : log[i].ok) <=> result = "none"
            ELSE /\ Calls("rollback") = {b + 1}
                 /\ Calls("commit") = {}
                 /\ result = IF ~log[Len(log)].ok THEN "close"
                             ELSE IF ~log[b + 1].ok THEN "rollback"
                             ELSE "body"

\* C8 witness: the body completed, the commit raised and rollback was called.
C8_Witness ==
    /\ GetDbDone
    /\ \E i \in Calls("body") : log[i].ok
    /\ \E i \in Calls("commit") : ~log[i].ok
    /\ Calls("rollback") # {}
    /\ result = "commit"

\* C9: _connect_with_retry(retries, delay) makes at most `retries`
\* connection attempts; the first attempt that succeeds ends the loop with
\* its connection; it sleeps `delay` after a failed attempt exactly when
\* that attempt is not the last one; and after `retries` failed attempts it
\* raises last_exc, the exception of the last attempt (the placeholder
\* "Could not connect to Db2", written 0, when retries is 0).
C9_BoundedRetry ==
    (call.caller \in GetDbCallers \cup {"direct"}) =>
        /\ Cardinality(Calls("connect")) <= call.retries
        /\ \A i \in Calls("connect") :
             /\ log[i].arg = Cardinality({j \in Calls("connect") : j <= i})
             /\ log[i].ok =>
                  \A j \in Calls("connect") \cup Calls("sleep") : j <= i
             /\ (~log[i].ok /\ log[i].arg < call.retries) =>
                  (i + 1) \in Calls("sleep")
             /\ (~log[i].ok /\ log[i].arg >= call.retries) =>
                  (i + 1) \notin Calls("sleep")
        /\ \A i \in Calls("sleep") :
             /\ (i - 1) \in Calls("connect")
             /\ ~log[i - 1].ok
             /\ log[i].arg = call.delay
             /\ cpc # "loop" => (i + 1) \in Calls("connect")
        /\ cpc = "loop" =>
             /\ attempt = Cardinality(Calls("connect"))
             /\ attempt <= call.retries
             /\ ~Acquired
        /\ cpc = "connected" => log[Len(log)] = Event("connect", TRUE, attempt + 1)
        /\ (cpc = "raised" \/ (cpc = "done" /\ ~Acquired)) =>
             /\ Cardinality(Calls("connect")) = call.retries
             /\ last_exc = call.retries
             /\ \A i \in Calls("connect") :
                  log[i].arg = call.retries => last_exc = log[i].arg

\* C9 witness: three attempts of _connect_with_retry(3, 2) failed, it slept
\* twice, and raised the third attempt's exception.
C9_Witness ==
    /\ cpc = "raised"
    /\ call = [caller |-> "direct", retries |-> 3, delay |-> 2]
    /\ Cardinality(Calls("connect")) = 3
    /\ Cardinality(Calls("sleep")) = 2
    /\ last_exc = 3

\* C10 as claimed: a request handler makes a single connection attempt and
\* fails without waiting; only start-up initialization retries.
C10_NoRetryPerRequest ==
    (call.caller \in RequestCallers) =>
        /\ Cardinality(Calls("connect")) <= 1
        /\ Calls("sleep") = {}

\* C10 amended: a request handler acquires its connection through get_db,
\* as start-up initialization does: _connect_with_retry with its defaults,
\* so up to 5 connection attempts with a wait of 5 after each failed attempt
\* but the last; its unit of work fails on the connection only after the
\* fifth failed attempt and four waits.
C10_RequestsRetryLikeStartup ==
    (call.caller \in GetDbCallers) =>
        /\ call.retries = DefaultRetries
        /\ call.delay = DefaultDelay
        /\ Cardinality(Calls("connect")) <= DefaultRetries
        /\ \A i \in Calls("sleep") : log[i].arg = DefaultDelay
        /\ (cpc = "done" /\ result = "connect") =>
             /\ Cardinality(Calls("connect")) = DefaultRetries
             /\ Cardinality(Calls("sleep")) = DefaultRetries - 1
             /\ ~Acquired

\* C10 witness: ui_add_to_cart failed on its connection after five attempts
\* and four waits.
C10_Witness ==
    /\ cpc = "done"
    /\ call.caller = "ui_add_to_cart"
    /\ result = "connect"
    /\ Cardinality(Calls("connect")) = 5
    /\ Cardinality(Calls("sleep")) = 4

\* GET /ready has answered.
ReadyDone == cpc = "done" /\ call.caller = "ready"

\* C11 as claimed: /ready makes exactly one connection attempt, without
\* retry or delay; it answers 503 when the store is unreachable and 200 when
\* the store is reachable and the probe query succeeds.
C11_ProbeQueryOkGives200 ==
    ReadyDone =>
        /\ Cardinality(Calls("connect")) = 1
        /\ Calls("sleep") = {}
        /\ ~log[1].ok => result = "503"
        /\ (log[1].ok /\ \E i \in Calls("execute") : log[i].ok) => result = "200"

\* C11 amended: /ready makes exactly one connection attempt, without retry
\* or delay; it answers 200 exactly when the connect, cursor(), the probe
\* query, cur.close() and conn.close() all return, and 503 when any of them
\* raises: when the store is unreachable, and also when the query succeeded
\* and closing the cursor or the connection raises.
C11_SingleAttemptProbe ==
    ReadyDone =>
        /\ Calls("connect") = {1}
        /\ Calls("sleep") = {}
        /\ result \in {"200", "503"}
        /\ result = "200" <=>
             (Len(log) = Len(ReadyCalls) /\ \A i \in 1..Len(log) : log[i].ok)
        /\ ~log[1].ok => (result = "503" /\ Len(log) = 1)
        /\ \A i \in 1..Len(log) : log[i].call = ReadyCalls[i]
        /\ \A i \in 1..Len(log) - 1 : log[i].ok

\* C11 witness: the store was unreachable and /ready answered 503 after its
\* one attempt.
C11_Witness ==
    /\ ReadyDone
    /\ log = << Event("connect", FALSE, 1) >>
    /\ result = "503"

\* C12: when the processes start together against a store whose products
\* table exists and is empty, their initializers leave the seed rows
\* inserted once: when the last of them finishes start-up (the store
\* answering its calls, and nothing else having run), each seed product has
\* exactly one row (8 seed rows in total), whatever the interleaving.
C12_SeedRowsInsertedOnce ==
    [][\A w \in Workers, o \in Outcomes :
         ( /\ nreq = 0
           /\ "products" \in tables
           /\ \A v \in Workers \ {w} : pc[v] = "idle"
           /\ StoreReturns(o)
           /\ init_db(w, o, 0) )
         => \A i \in 1..Len(seed_products) :
              Cardinality({p \in products' :
                             /\ p.price = seed_products[i].price
                             /\ p.stock = seed_products[i].stock}) = 1
    ]_vars

\* The form is one that ui_add_product rejects before it opens a connection.
FormIsInvalid(f) ==
    \/ f.name \in {"", " "}
    \/ f.price \notin FloatLiterals
    \/ (f.stock # "" /\ f.stock \notin IntLiterals)

\* The step wrote no row and process w has answered.
NothingWritten(w) ==
    /\ pc'[w] = "idle"
    /\ tables' = tables
    /\ products' = products
    /\ cart_items' = cart_items
    /\ orders' = orders

\* C13: an add-product request with a missing name or with a price or stock
\* that is not a number, and a checkout of a cart with no rows, are each
\* answered at once by the redirect to / that carries an error flash message
\* (the handler returns it; nothing is raised into a 5xx), and write no row
\* to any table.  (ui_add_product answers these before it opens a
\* connection, so its step draws no outcome of the store; the checkout is
\* taken under every outcome of its total query.)
C13_ValidationErrorsRedirect ==
    [][\A w \in Workers :
         ( pc[w] = "idle" /\ nreq' = nreq + 1 )
         => /\ last'.op = "add_product"
                 => \A f \in {g \in ProductForms : FormIsInvalid(g)} :
                 \/ /\ last'.type = "error"
                    /\ last'.msg = IF f.name \in {"", " "}
                                   THEN "Product name is required."
                                   ELSE "Invalid price or stock value."
                    /\ NothingWritten(w)
                 \/ ~ui_add_product(w, f.name, f.price, f.stock, NoFault)
            /\ ( cart_items = {}
                 /\ (last'.op = "checkout" \/ pc'[w] = "checkout_write") )
                 => \/ /\ last' = [op |-> "checkout", type |-> "error",
                                    msg |-> "Cart is empty.", rows |-> 0]
                       /\ NothingWritten(w)
                    \/ \A o \in Outcomes : ~ui_checkout_total(w, o)
    ]_vars

\* C13 witness: an add-product request whose price is not a number was
\* answered with the error flash, and no product was added.
C13_Witness ==
    /\ last = [op |-> "add_product", type |-> "error",
               msg |-> "Invalid price or stock value.", rows |-> 0]
    /\ Cardinality(products) = Len(seed_products)
    /\ nreq = 1

\* C14: in every reachable state every product row has price >= 0 and
\* stock >= 0, whatever parseable price and stock the add-product requests
\* submit.
C14_ProductsNonNegative ==
    \A p \in products : p.price >= 0 /\ p.stock >= 0

\* C15: in every reachable state every cart row has quantity >= 1, whatever
\* quantity the add-to-cart requests submit: a quantity that is not a number,
\* is zero or is negative is taken as 1, a lower quantity is never stored
\* and an UPDATE only raises the quantity it read.
C15_QuantityAtLeastOne ==
    /\ \A r \in cart_items : r.quantity >= 1
    /\ \A w \in Workers :
         pc[w] = "add_write"
         => /\ loc[w].qty >= 1
            /\ loc[w].row # NoRow => loc[w].row.quantity >= 1
    /\ \A q \in {"0", "-1", "abc"} : quantity_of_form(q) = 1

\* C15 witness: a cart row of quantity 1 was raised to 2 by a second add of
\* the same product.
C15_Witness ==
    /\ last.op = "add_to_cart" /\ last.type = "success"
    /\ nreq = 2
    /\ \E r \in cart_items : r.quantity = 2
    /\ Cardinality(cart_items) = 1

\* Process w makes the second step of a checkout.
CheckoutWriteStep(w) == pc[w] = "checkout_write" /\ pc'[w] = "idle"

\* C16: order rows are created only by checkout, one by each checkout that
\* answers success, and are never changed or deleted afterwards: in every
\* step the orders that exist stay as they are (same id, total_amount and
\* status), and a step that adds orders is the write of a checkout and adds
\* one order, of status "completed" and of an id no order had.
C16_OrdersOnlyGrow ==
    [][/\ orders \subseteq orders'
       /\ orders' # orders
            => /\ \E w \in Workers : CheckoutWriteStep(w)
               /\ last'.op = "checkout"
               /\ Cardinality(orders' \ orders) = 1
               /\ \A n \in orders' \ orders :
                    /\ n.status = "completed"
                    /\ \A m \in orders : m.id # n.id
       /\ \A w \in Workers :
            (CheckoutWriteStep(w) /\ last'.type = "success")
            => Cardinality(orders' \ orders) = 1
    ]_vars

\* C16 witness: an order was placed, and a later add-to-cart left it alone.
C16_Witness ==
    /\ Cardinality(orders) = 1
    /\ last.op = "add_to_cart" /\ last.type = "success"
    /\ cart_items # {}
    /\ nreq = 3

\* Process w makes a step of add-to-cart, remove-from-cart or checkout.
CartStep(w) ==
    \/ pc[w] \in {"add_write", "checkout_write"} /\ pc'[w] = "idle"
    \/ /\ pc[w] = "idle" /\ nreq' = nreq + 1
       /\ \/ pc'[w] \in {"add_write", "checkout_write"}
          \/ pc'[w] = "idle" /\ last'.op \in {"add_to_cart", "remove", "checkout"}

\* C17: products are created only by add-product and by seeding, and are
\* never updated or deleted: every step keeps every product row as it is
\* (stock included); a step that adds product rows is an add-product
\* request, which adds one, or the seeding of init_db, which adds the eight
\* seed rows; add-to-cart, remove-from-cart and checkout leave products
\* unchanged.
C17_ProductsOnlyAdded ==
    [][/\ products \subseteq products'
       /\ products' # products
            => \/ \E w \in Workers :
                    /\ pc[w] = "startup" /\ pc'[w] = "idle"
                    /\ products' = products \cup SeedRows(nextProductId)
               \/ \E w \in Workers :
                    /\ pc[w] = "idle" /\ pc'[w] = "idle" /\ nreq' = nreq + 1
                    /\ last'.op = "add_product"
                    /\ Cardinality(products' \ products) = 1
       /\ \A w \in Workers : CartStep(w) => products' = products
    ]_vars

\* C17 witness: a product was added with stock 3, then put in the cart and
\* checked out, and its row still has stock 3.
C17_Witness ==
    /\ last.op = "checkout" /\ last.type = "success"
    /\ \E o \in orders : o.total_amount = 1000
    /\ \E p \in products : p.price = 1000 /\ p.stock = 3
    /\ cart_items = {}

\* C18: every connection opened while a request is handled is closed before
\* the handler answers, on every path: when get_db (for a request handler) or
\* /ready is done and a connection was opened, conn.close() has been called
\* on it, as the last call; for /ready also when cursor() or the probe query
\* raised.
C18_RequestConnectionClosed ==
    (cpc = "done" /\ call.caller \in RequestCallers \cup {"ready"} /\ Acquired)
    => /\ Cardinality(Calls("close")) = 1
       /\ log[Len(log)].call = "close"

\* C19: checkout answers with the empty-cart error exactly when cart_items
\* has no rows: the first step of a checkout answers "Cart is empty." when the
\* cart has no rows, and goes on to place the order when it has at least one
\* (also when its rows price to zero, name a product that does not exist, or
\* the total query fails).
C19_EmptyErrorIffNoRows ==
    [][\A w \in Workers :
         ( pc[w] = "idle" /\ nreq' = nreq + 1
           /\ (last'.op = "checkout" \/ pc'[w] = "checkout_write") )
         => \A o \in Outcomes :
              ui_checkout_total(w, o)
              => ( (pc'[w] = "idle" /\ last'.msg = "Cart is empty.")
                   <=> cart_items = {} )
    ]_vars

\* C20: for every successful checkout the order's total_amount is the sum of
\* price x quantity over exactly the cart rows this checkout deletes (the
\* rows of cart_items when its DELETE runs), also when add-to-cart or
\* remove-from-cart requests commit between the checkout's total read and
\* its order insert and cart delete.
C20_TotalOfDeletedRows ==
    [][\A w \in Workers :
         ( CheckoutWriteStep(w) /\ last'.type = "success" )
         => /\ cart_items' = {}
            /\ \A n \in orders' \ orders :
                 n.total_amount = CartTotal(cart_items, products)
    ]_vars

\* C21: the order insert and the cart clear of a checkout take effect
\* together or not at all: the write step of a checkout either adds its one
\* order and leaves cart_items empty, or leaves orders and cart_items as
\* they were; and it leaves them as they were whenever the connection, one
\* of the two statements or the commit fails.
C21_OrderAndClearTogether ==
    [][\A w \in Workers :
         CheckoutWriteStep(w)
         => /\ \/ orders' = orders /\ cart_items' = cart_items
               \/ /\ orders \subseteq orders'
                  /\ Cardinality(orders' \ orders) = 1
                  /\ cart_items' = {}
            /\ \A o \in Outcomes :
                 ( (~o.conn \/ ~o.body \/ ~o.commit) /\ ui_checkout_write(w, o) )
                 => orders' = orders /\ cart_items' = cart_items
    ]_vars

\* C21 witness: a checkout failed in its write step; its cart is as it was
\* and no order exists.
C21_Witness ==
    /\ last = [op |-> "checkout", type |-> "error", msg |-> "Checkout error",
               rows |-> 0]
    /\ cart_items # {}
    /\ orders = {}

\* C22: in every reachable state every cart row's product_id is the id of
\* an existing product row.
C22_CartRowsReferenceProducts ==
    \A r \in cart_items : \E p \in products : p.id = r.product_id

\* C23: in every reachable state every order row has total_amount >= 0 and
\* status "completed".
C23_OrdersNonNegativeCompleted ==
    \A r \in orders : r.total_amount >= 0 /\ r.status = "completed"

\* C24: during schema initialization a CREATE TABLE failure that reports
\* "already exists" is swallowed and initialization continues with the next
\* table: on a store that already holds the three tables and whose calls
\* all return, init_db runs to its end; any initialization that fails
\* commits no seed row and still lets the worker start serving.
C24_AlreadyExistsSwallowed ==
    [][\A w \in Workers :
         (pc[w] = "startup" /\ pc'[w] = "idle")
         => /\ \A o \in Outcomes :
                 (StoreReturns(o) /\ tables = TableNames /\ init_db(w, o, 0))
                 => last'.type = "ok" /\ last'.msg = "none"
            /\ last'.type = "warning"
               => products' = products /\ tables' = tables
    ]_vars

\* The quantity the cart holds of product p: the sum over its rows.
QuantityOf(cart, p) ==
    SumOver(RowsOf(cart, p), [r \in RowsOf(cart, p) |-> r.quantity])

\* C25: no add is lost: every successful add-to-cart raises the quantity
\* the cart holds of its product by the quantity added, whatever other adds
\* were interleaved with it (the row it read not having been removed by a
\* remove or a checkout in between), so that after any interleaving of
\* successful adds the quantity is the sum of the quantities added.
C25_NoAddLost ==
    [][\A w \in Workers :
         ( /\ pc[w] = "add_write" /\ pc'[w] = "idle"
           /\ last'.type = "success"
           /\ loc[w].row # NoRow => \E r \in cart_items : r.id = loc[w].row.id )
         => QuantityOf(cart_items', loc[w].product_id)
              = QuantityOf(cart_items, loc[w].product_id) + loc[w].qty
    ]_vars

\* C26: every 200 response of GET /cart is internally consistent: its
\* total is the sum of the subtotals of the entries it returns and its count
\* is the number of those entries.
C26_CartResponseConsistent ==
    cart_response.status = 200
    => /\ cart_response.total =
            SumOver(cart_response.cart,
                    [e \in cart_response.cart |-> e.subtotal])
       /\ cart_response.count = Cardinality(cart_response.cart)

====
